---------------------------- MODULE Spec2Model ----------------------------
(***************************************************************************)
(* PageRank (src/pagerank.py): the transition model, the sampling          *)
(* estimator and the iterative estimator.                                  *)
(*                                                                         *)
(* Pages are the integers 1..N, in the corpus dictionary's key order.  A   *)
(* corpus is a function from pages to sets of pages.  Python's floats are  *)
(* modelled by exact rationals <<numerator, denominator>> in lowest terms  *)
(* (denominator > 0): every property below is a property of the           *)
(* arithmetic the code writes down, not of its rounding.                   *)
(***************************************************************************)
EXTENDS Integers, FiniteSets, Sequences, TLC

VARIABLES
    corpus,          \* the graph: page -> set of linked pages
    damping_factor,  \* rational
    page,            \* transition_model's argument / the surfer's current page
    n,               \* sample_pagerank's sample count
    visits,          \* sample_pagerank: page -> visit count
    i,               \* sample_pagerank: completed iterations of `for _ in range(n)`
    page_ranks,      \* iterate_pagerank: the current rank distribution
    pre_ranks,       \* iterate_pagerank: page_ranks as the last step read it
    difference,      \* iterate_pagerank: the last step's greatest_difference
    stepped,         \* iterate_pagerank: at least one loop body has run
    result,          \* the value returned
    err,             \* the exception raised ("" when none)
    pc               \* position in the running function

vars == <<corpus, damping_factor, page, n, visits, i, page_ranks, pre_ranks,
          difference, stepped, result, err, pc>>

-----------------------------------------------------------------------------
(* Bounds of the model *)

MaxNodes == 3
MaxSampleNodes == 2
MaxSamples == 3

-----------------------------------------------------------------------------
(* Exact rational arithmetic *)
(*                                                                         *)
(* An operator that uses an argument more than once first binds it to its  *)
(* value, Only({ ... : x \in {argument}}), so that the argument is         *)
(* evaluated once however deep the expression it comes from.               *)

Only(S) == CHOOSE x \in S : TRUE

RECURSIVE GCD(_, _)
GCD(a, b) ==
    IF b = 0 THEN a ELSE Only({GCD(x[1], x[2]) : x \in {<<b, a % b>>}})

AbsInt(a) == IF a < 0 THEN -a ELSE a

LCM(a, b) == Only({(a \div g) * b : g \in {GCD(a, b)}})

\* num / den in lowest terms, den # 0
Rat(num, den) ==
    Only({LET g == x[3]
              s == IF x[2] < 0 THEN -1 ELSE 1
          IN  <<s * (x[1] \div g), s * (x[2] \div g)>> :
          x \in {<<num, den, GCD(AbsInt(num), AbsInt(den))>>}})

Zero == <<0, 1>>
One == <<1, 1>>

RatAdd(a, b) ==
    Only({Only({Rat(x[1][1] * (l \div x[1][2]) + x[2][1] * (l \div x[2][2]), l) :
                l \in {LCM(x[1][2], x[2][2])}}) :
          x \in {<<a, b>>}})

RatNeg(a) == Only({<<-x[1], x[2]>> : x \in {a}})

RatSub(a, b) == RatAdd(a, RatNeg(b))

RatMul(a, b) ==
    Only({Only({Rat((x[1][1] \div g[1]) * (x[2][1] \div g[2]),
                    (x[1][2] \div g[2]) * (x[2][2] \div g[1])) :
                g \in {<<GCD(AbsInt(x[1][1]), x[2][2]),
                         GCD(AbsInt(x[2][1]), x[1][2])>>}}) :
          x \in {<<a, b>>}})

\* a / k for an integer k > 0
RatDivInt(a, k) == RatMul(a, <<1, k>>)

RatAbs(a) == Only({<<AbsInt(x[1]), x[2]>> : x \in {a}})

\* an/ad < bn/bd for non-negative fractions, by continued-fraction descent
\* (no products, so no overflow)
RECURSIVE PosLT(_, _, _, _)
PosLT(an, ad, bn, bd) ==
    \E x \in {<<an \div ad, bn \div bd, an % ad, bn % bd>>} :
        LET qa == x[1]
            qb == x[2]
            ra == x[3]
            rb == x[4]
        IN  IF qa # qb THEN qa < qb
            ELSE IF rb = 0 THEN FALSE
            ELSE IF ra = 0 THEN TRUE
            ELSE PosLT(bd, rb, ad, ra)

RatLT(a, b) ==
    \E x \in {<<a, b>>} :
        IF x[1][1] < 0
        THEN IF x[2][1] < 0
             THEN PosLT(-x[2][1], x[2][2], -x[1][1], x[1][2])
             ELSE TRUE
        ELSE IF x[2][1] < 0
             THEN FALSE
             ELSE PosLT(x[1][1], x[1][2], x[2][1], x[2][2])

RatLE(a, b) == ~RatLT(b, a)

RatMax(a, b) ==
    Only({IF RatLT(x[1], x[2]) THEN x[2] ELSE x[1] : x \in {<<a, b>>}})

\* sum of f[1] .. f[k]
RECURSIVE SumTo(_, _)
SumTo(f, k) == IF k = 0 THEN Zero ELSE RatAdd(SumTo(f, k - 1), f[k])

RatSum(f) == SumTo(f, Cardinality(DOMAIN f))

RECURSIVE IntSumTo(_, _)
IntSumTo(f, k) == IF k = 0 THEN 0 ELSE IntSumTo(f, k - 1) + f[k]

IntSum(f) == IntSumTo(f, Cardinality(DOMAIN f))

-----------------------------------------------------------------------------
(* Graphs *)

\* the empty mapping
NoRanks == [q \in {} |-> Zero]

\* crawl's output on N pages: no self-links, every link a key
Corpora(N) ==
    {c \in [1..N -> SUBSET (1..N)] : \A p \in 1..N : p \notin c[p]}

AllCorpora(M) == UNION {Corpora(N) : N \in 0..M}

num_pages(c) == Cardinality(DOMAIN c)

-----------------------------------------------------------------------------
(* transition_model *)

\* line 76 with `=` for `+=`: a linked page keeps only its link share
transition_model_LinkOverwrites(c, p, d) ==
    LET N == Cardinality(DOMAIN c)
        links == c[p]
        base == RatDivInt(RatSub(One, d), N)
    IN  IF links # {}
        THEN [q \in DOMAIN c |->
                 IF q \in links
                 THEN RatDivInt(d, Cardinality(links))
                 ELSE base]
        ELSE [q \in DOMAIN c |-> RatDivInt(One, N)]

\* line 76 dividing by num_pages for num_links
transition_model_LinkShareOverPages(c, p, d) ==
    LET N == Cardinality(DOMAIN c)
        links == c[p]
        base == RatDivInt(RatSub(One, d), N)
    IN  IF links # {}
        THEN [q \in DOMAIN c |->
                 IF q \in links THEN RatAdd(base, RatDivInt(d, N)) ELSE base]
        ELSE [q \in DOMAIN c |-> RatDivInt(One, N)]

\* line 80 giving a page without links the damped base weight of line 71
transition_model_DampedDangling(c, p, d) ==
    LET N == Cardinality(DOMAIN c)
        links == c[p]
        base == RatDivInt(RatSub(One, d), N)
    IN  IF links # {}
        THEN [q \in DOMAIN c |->
                 IF q \in links
                 THEN RatAdd(base, RatDivInt(d, Cardinality(links)))
                 ELSE base]
        ELSE [q \in DOMAIN c |-> base]

transition_model(c, p, d) ==
    LET N == num_pages(c)
        links == c[p]
        base == RatDivInt(RatSub(One, d), N)
    IN  IF links # {}
        THEN [q \in DOMAIN c |->
                 IF q \in links
                 THEN RatAdd(base, RatDivInt(d, Cardinality(links)))
                 ELSE base]
        ELSE [q \in DOMAIN c |-> RatDivInt(One, N)]

TransitionDampings == {Zero, <<1, 250>>, <<1, 2>>, <<17, 20>>, One}

InitTransition ==
    /\ corpus \in AllCorpora(MaxNodes)
    /\ damping_factor \in TransitionDampings
    /\ page \in 1..MaxNodes
    /\ n = 0
    /\ visits = <<>>
    /\ i = 0
    /\ page_ranks = NoRanks
    /\ pre_ranks = NoRanks
    /\ difference = Zero
    /\ stepped = FALSE
    /\ result = NoRanks
    /\ err = ""
    /\ pc = "call"

\* corpus[page] at line 66 raises KeyError for a page that is no key
TransitionKeyError ==
    /\ pc = "call"
    /\ page \notin DOMAIN corpus
    /\ err' = "KeyError"
    /\ pc' = "error"
    /\ UNCHANGED <<corpus, damping_factor, page, n, visits, i, page_ranks,
                   pre_ranks, difference, stepped, result>>

TransitionCall ==
    /\ pc = "call"
    /\ page \in DOMAIN corpus
    /\ result' = transition_model(corpus, page, damping_factor)
    /\ pc' = "done"
    /\ UNCHANGED <<corpus, damping_factor, page, n, visits, i, page_ranks,
                   pre_ranks, difference, stepped, err>>

NextTransition == TransitionCall \/ TransitionKeyError

SpecTransition == InitTransition /\ [][NextTransition]_vars

-----------------------------------------------------------------------------
(* sample_pagerank *)

SampleDampings == {Zero, <<1, 2>>, One}

InitSample ==
    /\ corpus \in AllCorpora(MaxSampleNodes)
    /\ damping_factor \in SampleDampings
    /\ n \in -1..MaxSamples
    /\ page = 0
    /\ visits = <<>>
    /\ i = 0
    /\ page_ranks = NoRanks
    /\ pre_ranks = NoRanks
    /\ difference = Zero
    /\ stepped = FALSE
    /\ result = NoRanks
    /\ err = ""
    /\ pc = "call"

\* random.choice of an empty sequence raises IndexError (line 101)
SampleEmptyCorpus ==
    /\ pc = "call"
    /\ DOMAIN corpus = {}
    /\ visits' = [q \in DOMAIN corpus |-> 0]
    /\ err' = "IndexError"
    /\ pc' = "error"
    /\ UNCHANGED <<corpus, damping_factor, page, n, i, page_ranks, pre_ranks,
                   difference, stepped, result>>

\* lines 94-101: the counters at zero, the start page uniform among all pages
SampleStart ==
    /\ pc = "call"
    /\ DOMAIN corpus # {}
    /\ visits' = [q \in DOMAIN corpus |-> 0]
    /\ \E start \in DOMAIN corpus : page' = start
    /\ pc' = "loop"
    /\ UNCHANGED <<corpus, damping_factor, n, i, page_ranks, pre_ranks,
                   difference, stepped, result, err>>

\* line 106 with `=` for `+=`
VisitOverwrites(v, p) == [v EXCEPT ![p] = 1]

Visit(v, p) == [v EXCEPT ![p] = @ + 1]

\* random.choices(all_pages, weights): a page is drawn with probability
\* proportional to its weight, so any page of positive weight can come out
Choices(weights) == {q \in DOMAIN weights : RatLT(Zero, weights[q])}

\* one iteration of `for _ in range(n)` (lines 103-115)
SampleStep ==
    /\ pc = "loop"
    /\ i < n
    /\ visits' = Visit(visits, page)
    /\ LET _transition_model == transition_model(corpus, page, damping_factor)
       IN  \E next \in Choices(_transition_model) : page' = next
    /\ i' = i + 1
    /\ UNCHANGED <<corpus, damping_factor, n, page_ranks, pre_ranks,
                   difference, stepped, result, err, pc>>

SampleResult(v, k) == [q \in DOMAIN v |-> Rat(v[q], k)]

\* line 117 with n = 0: visits[page] / 0 raises ZeroDivisionError
SampleZeroDivision ==
    /\ pc = "loop"
    /\ i >= n
    /\ n = 0
    /\ err' = "ZeroDivisionError"
    /\ pc' = "error"
    /\ UNCHANGED <<corpus, damping_factor, page, n, visits, i, page_ranks,
                   pre_ranks, difference, stepped, result>>

\* line 117: range(n) is exhausted (at once when n < 0)
SampleReturn ==
    /\ pc = "loop"
    /\ i >= n
    /\ n # 0
    /\ result' = SampleResult(visits, n)
    /\ pc' = "done"
    /\ UNCHANGED <<corpus, damping_factor, page, n, visits, i, page_ranks,
                   pre_ranks, difference, stepped, err>>

NextSample ==
    \/ SampleEmptyCorpus
    \/ SampleStart
    \/ SampleStep
    \/ SampleZeroDivision
    \/ SampleReturn

SpecSample == InitSample /\ [][NextSample]_vars

-----------------------------------------------------------------------------
(* iterate_pagerank *)

\* the fold of lines 122-123 over pages 1..k
RECURSIVE DifferenceTo(_, _, _)
DifferenceTo(ranks_a, ranks_b, k) ==
    IF k = 0 THEN Zero
    ELSE RatMax(DifferenceTo(ranks_a, ranks_b, k - 1),
                RatAbs(RatSub(ranks_a[k], ranks_b[k])))

greatest_difference(ranks_a, ranks_b) ==
    DifferenceTo(ranks_a, ranks_b, Cardinality(DOMAIN ranks_a))

\* lines 144-148 left out: a page without links passes its rank to no one
ContributeLinksOnly(c, d, previous_ranks, updated_ranks, p) ==
    LET links == c[p]
    IN  IF links # {}
        THEN LET contribution ==
                     RatMul(d, RatDivInt(previous_ranks[p], Cardinality(links)))
             IN  [q \in DOMAIN c |->
                     IF q \in links
                     THEN RatAdd(updated_ranks[q], contribution)
                     ELSE updated_ranks[q]]
        ELSE updated_ranks

\* lines 135-148 for one page p: its rank's share added to each of its links,
\* or to every page when it has none
Contribute(c, d, previous_ranks, updated_ranks, p) ==
    LET links == c[p]
    IN  IF links # {}
        THEN LET contribution ==
                     RatMul(d, RatDivInt(previous_ranks[p], Cardinality(links)))
             IN  [q \in DOMAIN c |->
                     IF q \in links
                     THEN RatAdd(updated_ranks[q], contribution)
                     ELSE updated_ranks[q]]
        ELSE LET contribution ==
                     RatMul(d, RatDivInt(previous_ranks[p], num_pages(c)))
             IN  [q \in DOMAIN c |-> RatAdd(updated_ranks[q], contribution)]

\* the loop of line 134 over pages 1..k, from the base ranks of line 132
RECURSIVE ContributeTo(_, _, _, _)
ContributeTo(c, d, previous_ranks, k) ==
    IF k = 0
    THEN [q \in DOMAIN c |-> RatDivInt(RatSub(One, d), num_pages(c))]
    ELSE Only({Contribute(c, d, previous_ranks, updated_ranks, k) :
               updated_ranks \in {ContributeTo(c, d, previous_ranks, k - 1)}})

iterate_pagerank_iteration(c, d, previous_ranks) ==
    ContributeTo(c, d, previous_ranks, num_pages(c))

\* the convergence threshold of line 170
Threshold == <<1, 1000>>

\* line 170 with `<=` for `<`
ConvergedInclusive(diff) == RatLE(diff, <<1, 1000>>)

\* line 170 with 0.1 for 0.001
ConvergedLoose(diff) == RatLT(diff, <<1, 10>>)

\* line 170: `difference < 0.001`
Converged(diff) == RatLT(diff, Threshold)

\* five pages: 3 -> 4, 4 -> {1, 2}, 5 -> {1, 4}; 1 and 2 link nowhere
FunnelCorpus == <<{}, {}, {4}, {1, 2}, {1, 4}>>
FunnelDamping == <<5, 6>>

\* two pages, 1 -> 2: at damping 1/250 the first step changes each rank by
\* exactly 1/1000
BoundaryCorpus == <<{2}, {}>>
BoundaryDamping == <<1, 250>>

IterDampings == {Zero, <<1, 4>>, <<1, 2>>, One}

\* Every small graph with every damping below 1; damping 1 on the graphs
\* whose pages have exactly one link each (the ranks stay multiples of 1/N);
\* the boundary graph at damping 1/250 and the funnel graph at damping 5/6.
IterInputs ==
    {in \in AllCorpora(MaxNodes) \X IterDampings :
        in[2] = One => \A p \in DOMAIN in[1] : Cardinality(in[1][p]) = 1}
    \cup {<<BoundaryCorpus, BoundaryDamping>>, <<FunnelCorpus, FunnelDamping>>}

InitIterate ==
    /\ \E in \in IterInputs : corpus = in[1] /\ damping_factor = in[2]
    /\ page = 0
    /\ n = 0
    /\ visits = <<>>
    /\ i = 0
    /\ page_ranks = NoRanks
    /\ pre_ranks = NoRanks
    /\ difference = Zero
    /\ stepped = FALSE
    /\ result = NoRanks
    /\ err = ""
    /\ pc = "call"

\* lines 161-164: every page starts at 1 / N
IterStart ==
    /\ pc = "call"
    /\ page_ranks' = [q \in DOMAIN corpus |-> RatDivInt(One, num_pages(corpus))]
    /\ pc' = "loop"
    /\ UNCHANGED <<corpus, damping_factor, page, n, visits, i, pre_ranks,
                   difference, stepped, result, err>>

\* the loop body without line 169: page_ranks never takes the updated ranks
IterStepStale ==
    /\ pc = "loop"
    /\ \E updated_ranks \in
            {iterate_pagerank_iteration(corpus, damping_factor, page_ranks)} :
         \E diff \in {greatest_difference(page_ranks, updated_ranks)} :
            /\ difference' = diff
            /\ pc' = IF RatLT(diff, <<1, 1000>>) THEN "return" ELSE "loop"
    /\ pre_ranks' = page_ranks
    /\ stepped' = TRUE
    /\ UNCHANGED <<corpus, damping_factor, page, n, visits, i, page_ranks,
                   result, err>>

\* one body of `while True` (lines 167-171)
IterStep ==
    /\ pc = "loop"
    /\ \E updated_ranks \in
            {iterate_pagerank_iteration(corpus, damping_factor, page_ranks)} :
         \E diff \in {greatest_difference(page_ranks, updated_ranks)} :
            /\ difference' = diff
            /\ page_ranks' = updated_ranks
            /\ pc' = IF Converged(diff) THEN "return" ELSE "loop"
    /\ pre_ranks' = page_ranks
    /\ stepped' = TRUE
    /\ UNCHANGED <<corpus, damping_factor, page, n, visits, i, result, err>>

\* line 173
IterReturn ==
    /\ pc = "return"
    /\ result' = page_ranks
    /\ pc' = "done"
    /\ UNCHANGED <<corpus, damping_factor, page, n, visits, i, page_ranks,
                   pre_ranks, difference, stepped, err>>

NextIterate == IterStart \/ IterStep \/ IterReturn

SpecIterate == InitIterate /\ [][NextIterate]_vars

\* The loop is sequential code: a step that can run does run.
FairSpecIterate == SpecIterate /\ WF_vars(NextIterate)

-----------------------------------------------------------------------------
(* Properties of transition_model, under SpecTransition *)

Pages == DOMAIN corpus

\* d is a damping factor of [0, 1)
BelowOne(d) == RatLE(Zero, d) /\ RatLT(d, One)

\* C1: transition_model's result has exactly one entry per page of the
\* corpus and its values sum to exactly 1.
C1_TransitionIsDistribution ==
    pc = "done" =>
        /\ DOMAIN result = Pages
        /\ RatSum(result) = One

C1_Witness ==
    /\ pc = "done"
    /\ Cardinality(Pages) = 3
    /\ Cardinality(corpus[page]) = 1
    /\ damping_factor = <<17, 20>>

\* C2: from a page with L > 0 links among N pages, a page that is not linked
\* gets (1 - d) / N and a linked page gets (1 - d) / N + d / L; stated with
\* the denominators cleared: N * w = 1 - d, and N * L * w = L * (1 - d) + N * d.
C2_LinkedPageWeights ==
    (pc = "done" /\ corpus[page] # {}) =>
        LET N == Cardinality(Pages)
            L == Cardinality(corpus[page])
            d == damping_factor
        IN  \A q \in Pages :
                IF q \in corpus[page]
                THEN RatMul(<<N * L, 1>>, result[q])
                       = RatAdd(RatMul(<<L, 1>>, RatSub(One, d)),
                                RatMul(<<N, 1>>, d))
                ELSE RatMul(<<N, 1>>, result[q]) = RatSub(One, d)

C2_Witness ==
    /\ pc = "done"
    /\ Cardinality(Pages) = 3
    /\ Cardinality(corpus[page]) = 2
    /\ damping_factor = <<1, 2>>

\* C3: from a page without links every page gets exactly 1 / N, whatever the
\* damping factor: the result is what any other damping factor would give.
C3_DanglingIsUniform ==
    (pc = "done" /\ corpus[page] = {}) =>
        /\ \A q \in Pages : result[q] = <<1, Cardinality(Pages)>>
        /\ \A d \in TransitionDampings :
               transition_model(corpus, page, d) = result

C3_Witness ==
    /\ pc = "done"
    /\ Cardinality(Pages) = 3
    /\ corpus[page] = {}
    /\ damping_factor = <<17, 20>>

-----------------------------------------------------------------------------
(* Properties of sample_pagerank, under SpecSample *)

\* C4: with at least one page and n >= 1, the counters sum to the number of
\* completed iterations, and the value returned has one entry per page, every
\* value in [0, 1], and the values sum to exactly 1 (the counters to n).
C4_SampleIsDistribution ==
    (n >= 1 /\ Pages # {}) =>
        /\ pc # "error"
        /\ pc = "loop" => (IntSum(visits) = i /\ i <= n)
        /\ pc = "done" =>
               /\ IntSum(visits) = n
               /\ DOMAIN result = Pages
               /\ \A q \in Pages :
                      RatLE(Zero, result[q]) /\ RatLE(result[q], One)
               /\ RatSum(result) = One

C4_Witness ==
    /\ pc = "done"
    /\ n = 3
    /\ Cardinality(Pages) = 2
    /\ visits = <<2, 1>>
    /\ result = <<(<<2, 3>>), (<<1, 3>>)>>

\* C9: sample_pagerank with n < 1 or with an empty corpus returns nothing.
C9_BadCountReturnsNothing ==
    (n < 1 \/ Pages = {}) => pc # "done"

-----------------------------------------------------------------------------
(* Properties of iterate_pagerank, under SpecIterate *)

\* the largest |a[q] - b[q]|, as a least upper bound
MaxAbsDiff(a, b) ==
    LET diffs == {RatAbs(RatSub(a[q], b[q])) : q \in DOMAIN a} \cup {Zero}
    IN  CHOOSE m \in diffs : \A x \in diffs : RatLE(x, m)

\* C5: with at least one page and a damping factor of [0, 1), the ranks held
\* by the loop have one entry per page and sum to exactly 1 at every
\* iteration, and so does the value returned.
C5_RanksSumToOne ==
    (Pages # {} /\ BelowOne(damping_factor)) =>
        /\ pc \in {"loop", "return", "done"} =>
               (DOMAIN page_ranks = Pages /\ RatSum(page_ranks) = One)
        /\ pc = "done" => (DOMAIN result = Pages /\ RatSum(result) = One)

C5_Witness ==
    /\ pc = "done"
    /\ damping_factor = <<1, 2>>
    /\ Cardinality(Pages) = 3
    /\ \E q \in Pages : corpus[q] = {}
    /\ \E q \in Pages : result[q] # <<1, 3>>

\* C6: the loop goes on after a step exactly when that step's greatest
\* difference is not below 0.001 (a difference of exactly 0.001 continues);
\* it returns only after a step, and what it returns is that last step's
\* updated distribution.
C6_StopsAtFirstSmallStep ==
    /\ ~stepped => pc \in {"call", "loop"}
    /\ stepped =>
           /\ page_ranks
                = iterate_pagerank_iteration(corpus, damping_factor, pre_ranks)
           /\ difference = MaxAbsDiff(pre_ranks, page_ranks)
           /\ pc = "loop" <=> RatLE(<<1, 1000>>, difference)
           /\ pc \in {"return", "done"} <=> RatLT(difference, <<1, 1000>>)
    /\ pc = "done" => result = page_ranks

C6_Witness ==
    /\ stepped
    /\ pc = "loop"
    /\ difference = <<1, 1000>>

\* C7: with a damping factor outside [0, 1) (and at least one page) no
\* iteration step is performed.
C7_RejectsDampingOne ==
    (Pages # {} /\ ~BelowOne(damping_factor)) => ~stepped

\* C8: with at least one page and a damping factor of [0, 1), iterate_pagerank
\* eventually returns.
C8_Terminates ==
    (pc = "call" /\ Pages # {} /\ BelowOne(damping_factor)) ~> (pc = "done")

C8_Witness ==
    /\ pc = "done"
    /\ Cardinality(Pages) = 3
    /\ damping_factor = <<1, 2>>
    /\ pre_ranks # [q \in Pages |-> <<1, 3>>]

\* the greatest change one more step makes to the value returned
NextStepChange ==
    greatest_difference(
        result, iterate_pagerank_iteration(corpus, damping_factor, result))

\* C10 as stated: one more step changes no rank of the returned
\* distribution by more than 0.001.
C10_NextStepWithinThreshold ==
    (pc = "done" /\ Pages # {} /\ BelowOne(damping_factor)) =>
        RatLE(NextStepChange, <<1, 1000>>)

\* C10, amended: one more step changes no rank of the returned distribution
\* by N * 0.001 or more, N the number of pages.
C10_NextStepWithinPagesTimesThreshold ==
    (pc = "done" /\ Pages # {} /\ BelowOne(damping_factor)) =>
        RatLT(NextStepChange, Rat(Cardinality(Pages), 1000))

C10_Witness ==
    /\ pc = "done"
    /\ Pages # {}
    /\ BelowOne(damping_factor)
    /\ RatLT(<<1, 1000>>, NextStepChange)

=============================================================================
